---------------------------- MODULE Spec2Model ----------------------------
(***************************************************************************)
(* Per-connection dispatch core of the embedded web server,                *)
(* proxy/http/server/web.py, class HttpWebServerPlugin.                    *)
(*                                                                         *)
(* One HttpWebServerPlugin object is one connection.  Its fields are the   *)
(* variables below; every handler of the class is one action.  Plugin      *)
(* hooks, the HTTP parser and the WebSocket codec live outside web.py:     *)
(* a hook's answer is an input of the action that calls it, and every      *)
(* call made by a handler is appended, in program order, to `trace`.       *)
(***************************************************************************)
EXTENDS Integers, Sequences, FiniteSets, TLC

VARIABLES
    flags,                   \* self.flags: plugins, keyfile, certfile, static server
    request,                 \* self.request: the first request of the connection
    plugins,                 \* self.plugins: dict name -> instance, insertion ordered
    routes,                  \* self.routes: protocol -> dict pattern -> instance
    route,                   \* self.route
    switched_protocol,       \* self.switched_protocol
    pipeline_request,        \* self.pipeline_request
    _response_size,          \* self._response_size
    _post_request_data_size, \* self._post_request_data_size
    client_queue,            \* self.client.queue(...): packets queued for the client
    called,                  \* the handler that ran last
    raw,                     \* the chunk the last on_client_data received
    trace,                   \* calls made by the handler that ran last, in order
    ret,                     \* what the handler that ran last returned or raised
    chunks,                  \* number of on_client_data calls so far
    chunk,                   \* the list the last on_response_chunk received
    returned,                \* the list the handler that ran last returned
    responses,               \* number of on_response_chunk calls so far
    inbound,                 \* bytes the connection handed to on_client_data
    outbound,                \* bytes the connection handed to on_response_chunk
    handled_requests             \* pipelined requests handed to handle_request so far

vars == <<flags, request, plugins, routes, route, switched_protocol,
          pipeline_request, _response_size, _post_request_data_size,
          client_queue, called, raw, trace, ret, chunks, chunk, returned,
          responses, inbound, outbound, handled_requests>>

----------------------------------------------------------------------------
(* Bounds of the model *)

\* plugin classes configured under b'HttpWebServerBasePlugin'
MaxPlugins == 3
\* tokens in one inbound chunk
MaxChunkLen == 2
\* on_client_data calls on one connection
MaxChunks == 2
\* on_response_chunk calls on one connection
MaxResponses == 1

----------------------------------------------------------------------------
(* Values *)

None == "None"

\* httpProtocolTypes
HTTP == "HTTP"
HTTPS == "HTTPS"
WEBSOCKET == "WEBSOCKET"
httpProtocolTypes == {HTTP, HTTPS, WEBSOCKET}

\* websocketOpcodes, the two the frame loop tells apart
TEXT_FRAME == "TEXT_FRAME"
CONNECTION_CLOSE == "CONNECTION_CLOSE"

NOT_FOUND_RESPONSE_PKT == <<"NOT_FOUND_RESPONSE_PKT">>

HttpProtocolException == "HttpProtocolException"

\* The core itself, as the caller recorded in a trace entry.
Core == "core"

\* Optional[HttpParser] without a parser
NoParser == [is_none |-> TRUE]

SeqsUpTo(S, n) == UNION {[1..k -> S] : k \in 0..n}

\* Python's dict: assigning to a present key keeps the key's position and
\* replaces its value; assigning to an absent key appends.
DictHas(d, k) == \E i \in 1..Len(d) : d[i][1] = k

DictGet(d, k) == d[CHOOSE i \in 1..Len(d) : d[i][1] = k][2]

DictSet(d, k, v) ==
    IF DictHas(d, k)
    THEN [i \in 1..Len(d) |-> IF d[i][1] = k THEN <<k, v>> ELSE d[i]]
    ELSE Append(d, <<k, v>>)

\* A call made by a handler working on s, appended to its trace: who is
\* called (or Core calling a collaborator), what, with which argument, and
\* the connection as it is at the time of the call.
Call(s, op, who, arg) ==
    [s EXCEPT !.trace = Append(@, [op |-> op, who |-> who, arg |-> arg,
                                   sp |-> s.switched_protocol,
                                   qlen |-> Len(s.client_queue),
                                   pp |-> s.pipeline_request])]

\* A call of a hook of the resolved route
Hook(s, op, arg) == Call(s, op, s.route, arg)

----------------------------------------------------------------------------
(* Regular expressions.  A pattern is a string of characters, "." matching *)
(* any one character; Pattern.match anchors at the start of the string     *)
(* and accepts any rest.                                                   *)

re_compile(r) == [pattern |-> r]

re_match(p, s) ==
    /\ Len(p.pattern) <= Len(s)
    /\ \A i \in 1..Len(p.pattern) :
          p.pattern[i] = "." \/ p.pattern[i] = s[i]

----------------------------------------------------------------------------
(* __init__ and _initialize_web_plugins *)

\* An instance is named by the position of its class in flags.plugins: "1", "2", ...
RECURSIVE AddRoutes(_, _, _, _, _)
AddRoutes(ps, rs, decl, j, name) ==
    IF j > Len(decl) THEN rs
    ELSE LET protocol == decl[j][1]
             pattern == re_compile(decl[j][2])
         IN AddRoutes(ps,
                      [rs EXCEPT ![protocol] =
                           DictSet(rs[protocol], pattern, DictGet(ps, name))],
                      decl, j + 1, name)

RECURSIVE _initialize_web_plugins(_, _, _, _)
_initialize_web_plugins(classes, k, ps, rs) ==
    IF k > Len(classes) THEN [plugins |-> ps, routes |-> rs]
    ELSE LET instance == ToString(k)
             name == classes[k].name
             ps1 == DictSet(ps, name, instance)
         IN _initialize_web_plugins(classes, k + 1, ps1,
                AddRoutes(ps1, rs, classes[k].routes, 1, name))

EmptyRoutes == [p \in httpProtocolTypes |-> <<>>]

encryption_enabled(f) == f.keyfile # None /\ f.certfile # None

----------------------------------------------------------------------------
(* Route resolution and the first request *)

\* _protocol without the test of encryption_enabled
_protocol_plain(req, f) ==
    <<req.is_websocket_upgrade,
      IF req.is_websocket_upgrade THEN WEBSOCKET ELSE HTTP>>

\* _protocol: (do_ws_upgrade, protocol)
_protocol(req, f) ==
    <<req.is_websocket_upgrade,
      IF req.is_websocket_upgrade THEN WEBSOCKET
      ELSE IF encryption_enabled(f) THEN HTTPS
      ELSE HTTP>>

\* The for loop of _try_route with its break: the position of the first
\* pattern of rs, in iteration order, that matches path; 0 when none does.
first_match(rs, path) ==
    LET hits == {i \in 1..Len(rs) : re_match(rs[i][1], path)}
    IN IF hits = {} THEN 0
       ELSE CHOOSE i \in hits : \A j \in hits : i <= j

\* WebsocketFrame.key_to_accept and build_websocket_handshake_response
key_to_accept(key) == <<"accept", key>>

build_websocket_handshake_response(accept) == <<"101 Switching Protocols", accept>>

\* switch_to_websocket setting switched_protocol before it queues
switch_to_websocket_early(s) ==
    LET pkt == build_websocket_handshake_response(
                   key_to_accept(request.sec_websocket_key))
        s1 == [s EXCEPT !.switched_protocol = WEBSOCKET]
    IN [Call(s1, "client.queue", Core, pkt) EXCEPT
          !.client_queue = Append(@, pkt)]

\* switch_to_websocket: queue the handshake, then set switched_protocol
switch_to_websocket(s) ==
    LET pkt == build_websocket_handshake_response(
                   key_to_accept(request.sec_websocket_key))
    IN [Call(s, "client.queue", Core, pkt) EXCEPT
          !.client_queue = Append(@, pkt),
          !.switched_protocol = WEBSOCKET]

\* What a handler works on: the fields it may write and its trace.
Self ==
    [route |-> route, switched_protocol |-> switched_protocol,
     client_queue |-> client_queue, pipeline_request |-> pipeline_request,
     _response_size |-> _response_size,
     _post_request_data_size |-> _post_request_data_size,
     trace |-> <<>>, ret |-> None]

\* _try_route upgrading whatever do_upgrade answers
_try_route_always_upgrade(s, path, accept) ==
    LET pr == _protocol(request, flags)
        do_ws_upgrade == pr[1]
        rs == routes[pr[2]]
        hit == first_match(rs, path)
    IN IF hit = 0 THEN [s EXCEPT !.ret = "False"]
       ELSE LET s1 == [s EXCEPT !.route = rs[hit][2], !.ret = "False"]
            IN IF do_ws_upgrade
               THEN Hook(switch_to_websocket(Hook(s1, "do_upgrade", accept)),
                         "on_websocket_open", <<>>)
               ELSE Hook(s1, "handle_request", request)

\* _try_route; accept is what route.do_upgrade(request) answers when asked
_try_route(s, path, accept) ==
    LET pr == _protocol(request, flags)
        do_ws_upgrade == pr[1]
        rs == routes[pr[2]]
        hit == first_match(rs, path)
    IN IF hit = 0 THEN [s EXCEPT !.ret = "False"]
       ELSE LET s1 == [s EXCEPT !.route = rs[hit][2], !.ret = "False"]
            IN IF do_ws_upgrade
               THEN LET s2 == Hook(s1, "do_upgrade", accept)
                    IN IF accept
                       THEN Hook(switch_to_websocket(s2), "on_websocket_open", <<>>)
                       ELSE Hook(s2, "handle_request", request)
               ELSE Hook(s1, "handle_request", request)

\* The path of the static file: text_(path).split('?', 1)[0]
RECURSIVE split_query(_)
split_query(path) ==
    IF path = <<>> \/ Head(path) = "?" THEN <<>>
    ELSE <<Head(path)>> \o split_query(Tail(path))

\* HttpWebServerBasePlugin.serve_static_file
serve_static_file(path, min_compression_length) == <<"static", path>>

\* _try_static_or_404 falling through to the 404 packet
_try_static_then_404(s, path) ==
    LET pkt == serve_static_file(flags.static_server_dir \o split_query(path),
                                 flags.min_compression_length)
        s1 == [Call(s, "client.queue", Core, pkt) EXCEPT
                  !.client_queue = Append(@, pkt)]
    IN [Call(s1, "client.queue", Core, NOT_FOUND_RESPONSE_PKT) EXCEPT
          !.client_queue = Append(@, NOT_FOUND_RESPONSE_PKT)]

_try_static_or_404(s, path) ==
    LET pkt == serve_static_file(flags.static_server_dir \o split_query(path),
                                 flags.min_compression_length)
    IN [Call(s, "client.queue", Core, pkt) EXCEPT
          !.client_queue = Append(@, pkt)]

queue_not_found(s) ==
    [Call(s, "client.queue", Core, NOT_FOUND_RESPONSE_PKT) EXCEPT
       !.client_queue = Append(@, NOT_FOUND_RESPONSE_PKT)]

\* request.path or b'/'
effective_path(req) == IF req.path = <<>> THEN <<"/">> ELSE req.path

\* on_request_complete asking for teardown after a dispatch too
request_complete_teardown(s, accept) ==
    LET path == effective_path(request)
        s1 == _try_route(s, path, accept)
    IN IF s1.ret = "True" THEN s1
       ELSE IF s1.route = None
            THEN IF flags.enable_static_server
                 THEN [_try_static_or_404(s1, path) EXCEPT !.ret = "True"]
                 ELSE [queue_not_found(s1) EXCEPT !.ret = "True"]
            ELSE [s1 EXCEPT !.ret = "True"]

\* on_request_complete after emit_request_complete
request_complete(s, accept) ==
    LET path == effective_path(request)
        s1 == _try_route(s, path, accept)
    IN IF s1.ret = "True" THEN s1
       ELSE IF s1.route = None
            THEN IF flags.enable_static_server
                 THEN [_try_static_or_404(s1, path) EXCEPT !.ret = "True"]
                 ELSE [queue_not_found(s1) EXCEPT !.ret = "True"]
            ELSE [s1 EXCEPT !.ret = "False"]

on_request_complete ==
    /\ called = "__init__"
    /\ \E accept \in (IF request.is_websocket_upgrade THEN BOOLEAN ELSE {FALSE}) :
          LET s == request_complete(Self, accept)
          IN /\ route' = s.route
             /\ switched_protocol' = s.switched_protocol
             /\ client_queue' = s.client_queue
             /\ trace' = s.trace
             /\ ret' = s.ret
    /\ called' = "on_request_complete"
    /\ returned' = <<>>
    /\ UNCHANGED <<flags, request, plugins, routes, pipeline_request,
                   _response_size, _post_request_data_size, raw, chunks,
                   chunk, responses, inbound, outbound, handled_requests>>

----------------------------------------------------------------------------
(* Configurations *)

Patterns == {<<"/", "x">>, <<"/", ".">>}

Paths == {<<>>, <<"/", "x">>, <<"/", "y", "?", "q">>}

RouteDecls == httpProtocolTypes \X Patterns

\* The plugin class at position k of flags.plugins, declaring decl
Class(k, decl) == [name |-> ToString(k), routes |-> decl]

Requests ==
    [path : Paths, is_websocket_upgrade : BOOLEAN, is_complete : {TRUE},
     is_http_1_1_keep_alive : BOOLEAN, sec_websocket_key : {"key"},
     total_size : {16}]

\* __init__, for the configuration f and the first request req
Construct(f, req) ==
    LET built == IF f.plugins # <<>>
                 THEN _initialize_web_plugins(f.plugins, 1, <<>>, EmptyRoutes)
                 ELSE [plugins |-> <<>>, routes |-> EmptyRoutes]
    IN /\ flags = f
       /\ request = req
       /\ pipeline_request = NoParser
       /\ switched_protocol = None
       /\ route = None
       /\ plugins = built.plugins
       /\ routes = built.routes
       /\ _response_size = 0
       /\ _post_request_data_size = 0
       /\ client_queue = <<>>
       /\ called = "__init__"
       /\ raw = <<>>
       /\ trace = <<>>
       /\ ret = None
       /\ chunks = 0
       /\ chunk = <<>>
       /\ returned = <<>>
       /\ responses = 0
       /\ inbound = 0
       /\ outbound = 0
       /\ handled_requests = <<>>

\* The configurations of the routing specification: every list of at most
\* MaxPlugins plugin classes, each declaring one route, with every first
\* request and every setting of the flags the first request depends on.
InitRoute ==
    \E decls \in SeqsUpTo(RouteDecls, MaxPlugins),
       kf \in {None, "key.pem"}, cf \in {None, "cert.pem"}, st \in BOOLEAN,
       req \in Requests :
       Construct([plugins |-> [k \in 1..Len(decls) |-> Class(k, <<decls[k]>>)],
                  keyfile |-> kf, certfile |-> cf,
                  enable_static_server |-> st,
                  static_server_dir |-> <<"public">>,
                  min_compression_length |-> 20], req)

NextRoute == on_request_complete

SpecRoute == InitRoute /\ [][NextRoute]_vars

----------------------------------------------------------------------------
(* Inbound data.  A chunk is a string of tokens, each one indivisible run  *)
(* of bytes.  Read as HTTP, "end_keep_alive" and "end_close" end a request *)
(* (with and without keep-alive) and the other tokens are inside one; read *)
(* as WebSocket, every token is one frame, "ws_close" a connection-close   *)
(* frame and the others text frames.                                       *)

Tokens == {"data", "end_keep_alive", "end_close", "ws_close"}

Chunks == SeqsUpTo(Tokens, MaxChunkLen) \ {<<>>}

\* HttpParser(httpParserTypes.REQUEST_PARSER)
HttpParser ==
    [is_complete |-> FALSE, is_http_1_1_keep_alive |-> FALSE,
     total_size |-> 0, buffer |-> <<>>]

\* HttpParser.parse: consumes up to the end of the request it is parsing and
\* keeps what follows in its buffer.
RECURSIVE HttpParser_parse(_, _)
HttpParser_parse(p, bytes) ==
    IF bytes = <<>> THEN p
    ELSE IF p.is_complete
         THEN [p EXCEPT !.buffer = @ \o bytes, !.total_size = @ + Len(bytes)]
         ELSE HttpParser_parse(
                  [p EXCEPT !.total_size = @ + 1,
                            !.is_complete = Head(bytes) \in {"end_keep_alive", "end_close"},
                            !.is_http_1_1_keep_alive = (Head(bytes) = "end_keep_alive")],
                  Tail(bytes))

\* WebsocketFrame.parse: decodes one frame and returns the bytes after it.
WebsocketFrame_parse(remaining) ==
    [frame |-> [opcode |-> IF Head(remaining) = "ws_close"
                           THEN CONNECTION_CLOSE ELSE TEXT_FRAME,
                data |-> Head(remaining)],
     remaining |-> Tail(remaining)]

\* The while loop forwarding a frame before it looks at its opcode
RECURSIVE frame_loop_forward_first(_, _, _)
frame_loop_forward_first(s, remaining, at) ==
    IF remaining = <<>> THEN s
    ELSE LET parsed == WebsocketFrame_parse(remaining)
             s1 == Hook(Call(s, "frame.parse", Core, at), "on_websocket_message",
                        [frame |-> parsed.frame, at |-> at])
         IN IF parsed.frame.opcode = CONNECTION_CLOSE
            THEN [s1 EXCEPT !.ret = HttpProtocolException]
            ELSE frame_loop_forward_first(s1, parsed.remaining, at + 1)

\* The while loop leaving the WebSocket protocol at a connection-close frame
RECURSIVE frame_loop_unswitch(_, _, _)
frame_loop_unswitch(s, remaining, at) ==
    IF remaining = <<>> THEN s
    ELSE LET parsed == WebsocketFrame_parse(remaining)
             s1 == Call(s, "frame.parse", Core, at)
         IN IF parsed.frame.opcode = CONNECTION_CLOSE
            THEN [s1 EXCEPT !.ret = HttpProtocolException,
                            !.switched_protocol = None]
            ELSE frame_loop_unswitch(Hook(s1, "on_websocket_message",
                                          [frame |-> parsed.frame, at |-> at]),
                                     parsed.remaining, at + 1)

\* The while loop of on_client_data; at is the offset of remaining in raw.
RECURSIVE frame_loop(_, _, _)
frame_loop(s, remaining, at) ==
    IF remaining = <<>> THEN s
    ELSE LET parsed == WebsocketFrame_parse(remaining)
             s1 == Call(s, "frame.parse", Core, at)
         IN IF parsed.frame.opcode = CONNECTION_CLOSE
            THEN [s1 EXCEPT !.ret = HttpProtocolException]
            ELSE frame_loop(Hook(s1, "on_websocket_message",
                                 [frame |-> parsed.frame, at |-> at]),
                            parsed.remaining, at + 1)

\* The pipelining branch without the fault for a request that is not keep-alive
pipeline_no_fault(s, bytes) ==
    LET created == s.pipeline_request = NoParser
        s1 == IF created
              THEN [Call(s, "HttpParser", Core, <<>>) EXCEPT
                       !.pipeline_request = HttpParser]
              ELSE s
        s2 == [Call(s1, "pipeline_request.parse", Core, bytes) EXCEPT
                  !.pipeline_request = HttpParser_parse(@, bytes)]
    IN IF s2.pipeline_request.is_complete
       THEN [Hook(s2, "handle_request", s2.pipeline_request) EXCEPT
                !.pipeline_request = NoParser]
       ELSE s2

\* The pipelining branch with a new parser for every chunk
pipeline_fresh_parser(s, bytes) ==
    LET s1 == [Call(s, "HttpParser", Core, <<>>) EXCEPT
                  !.pipeline_request = HttpParser]
        s2 == [Call(s1, "pipeline_request.parse", Core, bytes) EXCEPT
                  !.pipeline_request = HttpParser_parse(@, bytes)]
    IN IF s2.pipeline_request.is_complete
       THEN LET s3 == Hook(s2, "handle_request", s2.pipeline_request)
            IN IF ~s2.pipeline_request.is_http_1_1_keep_alive
               THEN [s3 EXCEPT !.ret = HttpProtocolException]
               ELSE [s3 EXCEPT !.pipeline_request = NoParser]
       ELSE s2

\* The pipelining branch keeping the parser of a completed request
pipeline_keep_parser(s, bytes) ==
    LET created == s.pipeline_request = NoParser
        s1 == IF created
              THEN [Call(s, "HttpParser", Core, <<>>) EXCEPT
                       !.pipeline_request = HttpParser]
              ELSE s
        s2 == [Call(s1, "pipeline_request.parse", Core, bytes) EXCEPT
                  !.pipeline_request = HttpParser_parse(@, bytes)]
    IN IF s2.pipeline_request.is_complete
       THEN LET s3 == Hook(s2, "handle_request", s2.pipeline_request)
            IN IF ~s2.pipeline_request.is_http_1_1_keep_alive
               THEN [s3 EXCEPT !.ret = HttpProtocolException]
               ELSE s3
       ELSE s2

\* The pipelining branch of on_client_data
pipeline(s, bytes) ==
    LET created == s.pipeline_request = NoParser
        s1 == IF created
              THEN [Call(s, "HttpParser", Core, <<>>) EXCEPT
                       !.pipeline_request = HttpParser]
              ELSE s
        s2 == [Call(s1, "pipeline_request.parse", Core, bytes) EXCEPT
                  !.pipeline_request = HttpParser_parse(@, bytes)]
    IN IF s2.pipeline_request.is_complete
       THEN LET s3 == Hook(s2, "handle_request", s2.pipeline_request)
            IN IF ~s2.pipeline_request.is_http_1_1_keep_alive
               THEN [s3 EXCEPT !.ret = HttpProtocolException]
               ELSE [s3 EXCEPT !.pipeline_request = NoParser]
       ELSE s2

\* on_client_data going on with a chunk the route's hook has handled
client_data_not_refused(s0, bytes, handled) ==
    LET s == [s0 EXCEPT !._post_request_data_size = @ + Len(bytes)]
        s1 == IF s.route # None THEN Hook(s, "on_client_data", handled) ELSE s
    IN IF s1.switched_protocol = WEBSOCKET
       THEN frame_loop(s1, bytes, 1)
       ELSE IF /\ request.is_complete
               /\ request.is_http_1_1_keep_alive
               /\ s1.route # None
            THEN pipeline(s1, bytes)
            ELSE s1

\* on_client_data pipelining whatever the first request asked for
client_data_any_request(s0, bytes, handled) ==
    LET s == [s0 EXCEPT !._post_request_data_size = @ + Len(bytes)]
        s1 == IF s.route # None THEN Hook(s, "on_client_data", handled) ELSE s
    IN IF s.route # None /\ handled THEN s1
       ELSE IF s1.switched_protocol = WEBSOCKET
            THEN frame_loop(s1, bytes, 1)
            ELSE IF request.is_complete /\ s1.route # None
                 THEN pipeline(s1, bytes)
                 ELSE s1

\* on_client_data going on to the pipelining test after the frames
client_data_fall_through(s0, bytes, handled) ==
    LET s == [s0 EXCEPT !._post_request_data_size = @ + Len(bytes)]
        s1 == IF s.route # None THEN Hook(s, "on_client_data", handled) ELSE s
        s2 == IF s1.switched_protocol = WEBSOCKET
              THEN frame_loop(s1, bytes, 1) ELSE s1
    IN IF s.route # None /\ handled THEN s1
       ELSE IF s2.ret = HttpProtocolException THEN s2
            ELSE IF /\ request.is_complete
                    /\ request.is_http_1_1_keep_alive
                    /\ s2.route # None
                 THEN pipeline(s2, bytes)
                 ELSE s2

\* on_client_data; handled is whether the route's on_client_data hook
\* returns None
client_data(s0, bytes, handled) ==
    LET s == [s0 EXCEPT !._post_request_data_size = @ + Len(bytes)]
        s1 == IF s.route # None THEN Hook(s, "on_client_data", handled) ELSE s
    IN IF s.route # None /\ handled THEN s1
       ELSE IF s1.switched_protocol = WEBSOCKET
            THEN frame_loop(s1, bytes, 1)
            ELSE IF /\ request.is_complete
                    /\ request.is_http_1_1_keep_alive
                    /\ s1.route # None
                 THEN pipeline(s1, bytes)
                 ELSE s1

\* The pipelined requests a call of on_client_data handed to handle_request:
\* the plugin called, and the offset in the inbound stream, counted from the
\* first byte after the first request, of the last byte of the request.
Dispatches(s, before) ==
    LET IsDispatch(e) == e.op = "handle_request"
        calls == SelectSeq(s.trace, IsDispatch)
        base == IF s.trace[1].pp = NoParser THEN 0 ELSE s.trace[1].pp.total_size
    IN [i \in 1..Len(calls) |->
          [who |-> calls[i].who,
           end |-> before + calls[i].arg.total_size
                          - Len(calls[i].arg.buffer) - base]]

\* The connection is open: the first request was dispatched, no fault was
\* raised and the connection was not closed.
Open ==
    /\ called \notin {"__init__", "on_client_connection_close"}
    /\ ret # HttpProtocolException

\* on_client_data for a chunk of the set C
on_client_data_of(C) ==
    /\ Open
    /\ chunks < MaxChunks
    /\ \E bytes \in C :
       \E handled \in (IF route # None THEN BOOLEAN ELSE {FALSE}) :
          LET s == client_data(Self, bytes, handled)
          IN /\ raw' = bytes
             /\ route' = s.route
             /\ switched_protocol' = s.switched_protocol
             /\ client_queue' = s.client_queue
             /\ _response_size' = s._response_size
             /\ _post_request_data_size' = s._post_request_data_size
             /\ pipeline_request' = s.pipeline_request
             /\ trace' = s.trace
             /\ ret' = s.ret
             /\ inbound' = inbound + Len(bytes)
             /\ handled_requests' = IF s.trace = <<>> THEN handled_requests
                              ELSE handled_requests \o Dispatches(s, inbound)
    /\ called' = "on_client_data"
    /\ chunks' = chunks + 1
    /\ returned' = <<>>
    /\ UNCHANGED <<flags, request, plugins, routes, chunk, responses, outbound>>

on_client_data == on_client_data_of(Chunks)

----------------------------------------------------------------------------
(* The connection *)

\* One installation: a plugin serving /x over HTTP and WebSocket, and one
\* serving every one-segment path over HTTPS.
Installed ==
    <<[name |-> "a", routes |-> <<<<HTTP, <<"/", "x">>>>,
                                  <<WEBSOCKET, <<"/", "x">>>>>>],
      [name |-> "b", routes |-> <<<<HTTPS, <<"/", ".">>>>>>]>>

Init ==
    \E tls \in BOOLEAN, st \in BOOLEAN, req \in Requests :
       /\ req.path # <<>>
       /\ Construct([plugins |-> Installed,
                     keyfile |-> IF tls THEN "key.pem" ELSE None,
                     certfile |-> IF tls THEN "cert.pem" ELSE None,
                     enable_static_server |-> st,
                     static_server_dir |-> <<"public">>,
                     min_compression_length |-> 20], req)

Next == on_request_complete \/ on_client_data

Spec == Init /\ [][Next]_vars

----------------------------------------------------------------------------
(* The other handlers of a connection: response chunks, the descriptors of *)
(* the plugins, and the close of the client connection.                    *)

\* sum(len(c) for c in chunk)
RECURSIVE SumLen(_)
SumLen(list) == IF list = <<>> THEN 0 ELSE Len(Head(list)) + SumLen(Tail(list))

\* The lists on_response_chunk is called with: at most two memoryviews of
\* one or two bytes
ResponseChunks == SeqsUpTo({<<"byte">>, <<"byte", "byte">>}, 2)

\* on_response_chunk counting the chunks of the list
response_chunk_count(s, list) ==
    [self |-> [s EXCEPT !._response_size = @ + Len(list)], returns |-> list]

\* on_response_chunk: the connection after the call, and what it returns
response_chunk(s, list) ==
    [self |-> [s EXCEPT !._response_size = @ + SumLen(list)], returns |-> list]

on_response_chunk ==
    /\ Open
    /\ responses < MaxResponses
    /\ \E list \in ResponseChunks :
          LET r == response_chunk(Self, list)
          IN /\ chunk' = list
             /\ returned' = r.returns
             /\ route' = r.self.route
             /\ switched_protocol' = r.self.switched_protocol
             /\ client_queue' = r.self.client_queue
             /\ pipeline_request' = r.self.pipeline_request
             /\ _response_size' = r.self._response_size
             /\ _post_request_data_size' = r.self._post_request_data_size
             /\ trace' = r.self.trace
             /\ ret' = r.self.ret
             /\ outbound' = outbound + SumLen(list)
    /\ called' = "on_response_chunk"
    /\ responses' = responses + 1
    /\ UNCHANGED <<flags, request, plugins, routes, raw, chunks, inbound,
                   handled_requests>>

\* What a plugin is handed by the descriptor methods
Descriptors == <<"fd">>

\* get_descriptors: every plugin of the registry is asked, in the order of
\* self.plugins.values(); has[i] is whether the i-th has a descriptor, which
\* it names by itself.
RECURSIVE gather(_, _, _, _)
gather(s, has, i, fds) ==
    IF i > Len(plugins) THEN [self |-> s, returns |-> <<fds, fds>>]
    ELSE gather(Call(s, "get_descriptors", plugins[i][2], <<>>), has, i + 1,
                IF has[i] THEN Append(fds, plugins[i][2]) ELSE fds)

\* The loop of the descriptor methods going on after a teardown
RECURSIVE fan_out_all(_, _, _, _)
fan_out_all(s, op, teardown, i) ==
    IF i > Len(plugins)
    THEN [s EXCEPT !.ret = IF \E j \in 1..Len(plugins) : teardown[j]
                           THEN "True" ELSE "False"]
    ELSE fan_out_all(Call(s, op, plugins[i][2],
                          [fds |-> Descriptors, returns |-> teardown[i]]),
                     op, teardown, i + 1)

\* The loop of read_from_descriptors and write_to_descriptors from the i-th
\* plugin of self.plugins.values() on; teardown[i] is what the i-th returns,
\* kept in the trace with what the plugin was handed.
RECURSIVE fan_out(_, _, _, _)
fan_out(s, op, teardown, i) ==
    IF i > Len(plugins) THEN [s EXCEPT !.ret = "False"]
    ELSE LET s1 == Call(s, op, plugins[i][2],
                        [fds |-> Descriptors, returns |-> teardown[i]])
         IN IF teardown[i] THEN [s1 EXCEPT !.ret = "True"]
            ELSE fan_out(s1, op, teardown, i + 1)

\* A handler that leaves the connection as s, returning the list returns
Return(s, returns, handler) ==
    /\ route' = s.route
    /\ switched_protocol' = s.switched_protocol
    /\ client_queue' = s.client_queue
    /\ pipeline_request' = s.pipeline_request
    /\ _response_size' = s._response_size
    /\ _post_request_data_size' = s._post_request_data_size
    /\ trace' = s.trace
    /\ ret' = s.ret
    /\ returned' = returns
    /\ called' = handler
    /\ UNCHANGED <<flags, request, plugins, routes, raw, chunks, chunk,
                   responses, inbound, outbound, handled_requests>>

get_descriptors ==
    /\ Open
    /\ \E has \in [1..Len(plugins) -> BOOLEAN] :
          LET r == gather(Self, has, 1, <<>>)
          IN Return(r.self, r.returns, "get_descriptors")

write_to_descriptors ==
    /\ Open
    /\ \E teardown \in [1..Len(plugins) -> BOOLEAN] :
          Return(fan_out(Self, "write_to_descriptors", teardown, 1), <<>>,
                 "write_to_descriptors")

read_from_descriptors ==
    /\ Open
    /\ \E teardown \in [1..Len(plugins) -> BOOLEAN] :
          Return(fan_out(Self, "read_from_descriptors", teardown, 1), <<>>,
                 "read_from_descriptors")

\* on_access_log returning None
NoContext == [is_none |-> TRUE]

\* _context: the fields of the log line that depend on the connection
_context(s) ==
    [request_path |-> request.path,
     request_bytes |-> request.total_size + s._post_request_data_size,
     response_bytes |-> s._response_size]

\* What the route's on_access_log may return for context: None, the context
\* as it is, or a context of its own
AccessLogAnswers(context) ==
    {NoContext, context, [context EXCEPT !.request_path = <<"rewritten">>]}

\* on_client_connection_close logging the default line whatever the route says
client_connection_close_default_line(s, answer) ==
    LET context == _context(s)
    IN IF s.route # None
       THEN LET s1 == Hook(s, "on_client_connection_close", <<>>)
                s2 == Hook(s1, "on_access_log",
                           [context |-> context, returns |-> answer])
            IN Call(s2, "access_log", Core, context)
       ELSE Call(s, "access_log", Core, context)

\* on_client_connection_close asking for the log context before it notifies
client_connection_close_log_first(s, answer) ==
    LET context == _context(s)
    IN IF s.route # None
       THEN LET s1 == Hook(s, "on_access_log",
                           [context |-> context, returns |-> answer])
                s2 == Hook(s1, "on_client_connection_close", <<>>)
            IN IF answer = NoContext THEN s2
               ELSE Call(s2, "access_log", Core, answer)
       ELSE Call(s, "access_log", Core, context)

\* on_client_connection_close; answer is what the route's on_access_log
\* returns, kept in the trace with the context the hook was given
client_connection_close(s, answer) ==
    LET context == _context(s)
    IN IF s.route # None
       THEN LET s1 == Hook(s, "on_client_connection_close", <<>>)
                s2 == Hook(s1, "on_access_log",
                           [context |-> context, returns |-> answer])
            IN IF answer = NoContext THEN s2
               ELSE Call(s2, "access_log", Core, answer)
       ELSE Call(s, "access_log", Core, context)

on_client_connection_close ==
    /\ called \notin {"__init__", "on_client_connection_close"}
    /\ \E answer \in (IF route # None THEN AccessLogAnswers(_context(Self))
                      ELSE {NoContext}) :
          Return([client_connection_close(Self, answer) EXCEPT !.ret = None],
                 <<>>, "on_client_connection_close")

\* The chunks of one token
LifeChunks == {<<t>> : t \in Tokens}

\* The installation without TLS and without static serving, with every first
\* request.
InitLife ==
    \E req \in Requests :
       /\ req.path # <<>>
       /\ Construct([plugins |-> Installed,
                     keyfile |-> None, certfile |-> None,
                     enable_static_server |-> FALSE,
                     static_server_dir |-> <<"public">>,
                     min_compression_length |-> 20], req)

NextLife ==
    \/ on_request_complete
    \/ on_client_data_of(LifeChunks)
    \/ on_response_chunk
    \/ get_descriptors
    \/ read_from_descriptors
    \/ write_to_descriptors
    \/ on_client_connection_close

SpecLife == InitLife /\ [][NextLife]_vars

\* Plugin classes that declare a name and one plain route
NamedClasses ==
    [name : {"a", "b", "c"},
     routes : {<<<<HTTP, <<"/", "x">>>>>>, <<<<HTTP, <<"/", ".">>>>>>}]

\* Every list of at most MaxPlugins named classes, two of which may declare
\* the same name, with a plain request of /x.
InitNames ==
    \E classes \in SeqsUpTo(NamedClasses, MaxPlugins) :
    \E req \in Requests :
       /\ req.path = <<"/", "x">>
       /\ ~req.is_websocket_upgrade
       /\ req.is_http_1_1_keep_alive
       /\ Construct([plugins |-> classes,
                     keyfile |-> None, certfile |-> None,
                     enable_static_server |-> FALSE,
                     static_server_dir |-> <<"public">>,
                     min_compression_length |-> 20], req)

NextNames ==
    \/ on_request_complete
    \/ get_descriptors
    \/ read_from_descriptors
    \/ write_to_descriptors

SpecNames == InitNames /\ [][NextNames]_vars

----------------------------------------------------------------------------
(* Properties of the first request.  They are stated on the configuration *)
(* and on the trace of on_request_complete, not on the route table.       *)

\* The calls of trace, in order, that are calls of op
Calls(op) == LET IsOp(e) == e.op = op IN SelectSeq(trace, IsOp)

\* The hooks of plugins, as they appear in trace
PluginCalls == LET IsHook(e) == e.who # Core IN SelectSeq(trace, IsHook)

\* The path the first request is routed by
RoutedPath == IF Len(request.path) = 0 THEN <<"/">> ELSE request.path

\* The kind of the first request
RoutedKind ==
    CASE request.is_websocket_upgrade -> WEBSOCKET
      [] ~request.is_websocket_upgrade
           /\ flags.keyfile # None /\ flags.certfile # None -> HTTPS
      [] OTHER -> HTTP

\* The plugin class at position k declares, under kind, a pattern matching path
Declares(k, kind, path) ==
    \E j \in 1..Len(flags.plugins[k].routes) :
       /\ flags.plugins[k].routes[j][1] = kind
       /\ re_match(re_compile(flags.plugins[k].routes[j][2]), path)

\* The position in flags.plugins of the class of an instance
Position(instance) ==
    CHOOSE k \in 1..Len(flags.plugins) : ToString(k) = instance

Dispatched == called = "on_request_complete"

\* C1: first match wins.  Of two plugins registered in order a then b that
\* both declare, under the kind of the request, a pattern matching its path,
\* the request never resolves to b; and every kind's route list iterates its
\* plugins in registration order.
C1_FirstMatchWins ==
    Dispatched =>
       /\ \A a, b \in 1..Len(flags.plugins) :
             (/\ a < b
              /\ Declares(a, RoutedKind, RoutedPath)
              /\ Declares(b, RoutedKind, RoutedPath)) => route # ToString(b)
       /\ \A kind \in httpProtocolTypes :
             \A i, j \in 1..Len(routes[kind]) :
                i < j => Position(routes[kind][i][2]) <= Position(routes[kind][j][2])

\* C2: protocol-kind isolation.  When no pattern declared under the kind of
\* the request matches its path, no route is resolved and no plugin hook is
\* invoked, whatever is declared under the other kinds.
C2_KindIsolation ==
    (/\ Dispatched
     /\ \A k \in 1..Len(flags.plugins) : ~Declares(k, RoutedKind, RoutedPath))
    => /\ route = None
       /\ PluginCalls = <<>>

\* A miss under the kind of the request of a path that a pattern of another
\* kind matches.
C2_Witness ==
    /\ Dispatched
    /\ \A k \in 1..Len(flags.plugins) : ~Declares(k, RoutedKind, RoutedPath)
    /\ \E k \in 1..Len(flags.plugins) :
       \E kind \in httpProtocolTypes \ {RoutedKind} :
          Declares(k, kind, RoutedPath)
    /\ route = None

C4_ReturnValue ==
    Dispatched =>
       /\ ret \in {"True", "False"}
       /\ ret = "False" <=> route # None
       /\ ret = "True" <=> route = None

\* Both outcomes of C4 are returns of on_request_complete; this one is the
\* miss served by the static utility.
C4_Witness ==
    /\ Dispatched
    /\ route = None
    /\ flags.enable_static_server
    /\ ret = "True"

\* The route accepted the upgrade of the first request
Upgraded ==
    /\ Dispatched
    /\ request.is_websocket_upgrade
    /\ route # None
    /\ \E i \in 1..Len(trace) : trace[i].op = "do_upgrade" /\ trace[i].arg

\* C5: when the first request declares an upgrade, a WEBSOCKET route matches
\* and its do_upgrade accepts, the handshake is queued while
\* switched_protocol is still unset, switched_protocol is WEBSOCKET when
\* on_websocket_open is invoked on the route, after the handshake, and
\* handle_request is not invoked.
C5_UpgradeOrder ==
    Upgraded =>
       /\ Len(Calls("client.queue")) = 1
       /\ Len(Calls("on_websocket_open")) = 1
       /\ \E i, j \in 1..Len(trace) :
             /\ i < j
             /\ trace[i].op = "client.queue"
             /\ trace[i].arg = build_websocket_handshake_response(
                                   key_to_accept(request.sec_websocket_key))
             /\ trace[i].sp = None
             /\ trace[j].op = "on_websocket_open"
             /\ trace[j].who = route
             /\ trace[j].sp = WEBSOCKET
             /\ trace[j].qlen = trace[i].qlen + 1
       /\ switched_protocol = WEBSOCKET
       /\ Calls("handle_request") = <<>>

C5_Witness ==
    /\ Upgraded
    /\ switched_protocol = WEBSOCKET
    /\ Len(Calls("on_websocket_open")) = 1

\* C6: when a route is resolved and the connection is not upgrading (no
\* upgrade was declared, or do_upgrade declined), handle_request is invoked
\* exactly once, on the route, with the first request; no handshake is
\* queued, on_websocket_open is not invoked, switched_protocol stays unset.
C6_PlainDispatch ==
    (Dispatched /\ route # None /\ ~Upgraded) =>
       /\ Len(Calls("handle_request")) = 1
       /\ Calls("handle_request")[1].who = route
       /\ Calls("handle_request")[1].arg = request
       /\ Calls("client.queue") = <<>>
       /\ client_queue = <<>>
       /\ Calls("on_websocket_open") = <<>>
       /\ switched_protocol = None

\* The route declined the upgrade the first request declared.
C6_Witness ==
    /\ Dispatched
    /\ route # None
    /\ request.is_websocket_upgrade
    /\ ~Upgraded
    /\ Len(Calls("handle_request")) = 1

----------------------------------------------------------------------------
(* Properties of inbound data, stated on the chunk on_client_data received *)
(* and on the trace of that call.                                          *)

Received == called = "on_client_data"

\* The route's on_client_data hook reported the chunk handled
Claimed ==
    /\ Received
    /\ trace # <<>>
    /\ trace[1].op = "on_client_data"
    /\ trace[1].arg

\* The position in raw of the first token of S, Len(raw) + 1 when there is none
First(S) ==
    LET at == {i \in 1..Len(raw) : raw[i] \in S}
    IN IF at = {} THEN Len(raw) + 1
       ELSE CHOOSE i \in at : \A j \in at : i <= j

Ends == {"end_keep_alive", "end_close"}

\* C7: on a switched connection, a chunk the route's raw-data hook did not
\* claim is decoded frame by frame; the frames before the first
\* connection-close frame are forwarded to on_websocket_message in their
\* order, the close frame raises HttpProtocolException and is not forwarded,
\* and nothing after it is decoded or forwarded.
C7_FrameLoop ==
    (Received /\ switched_protocol = WEBSOCKET /\ ~Claimed) =>
       LET k == First({"ws_close"})
           msgs == Calls("on_websocket_message")
           parses == Calls("frame.parse")
       IN /\ Len(msgs) = k - 1
          /\ \A i \in 1..Len(msgs) :
                /\ msgs[i].who = route
                /\ msgs[i].arg.at = i
                /\ msgs[i].arg.frame.data = raw[i]
                /\ msgs[i].arg.frame.opcode # CONNECTION_CLOSE
          /\ Len(parses) = (IF k <= Len(raw) THEN k ELSE Len(raw))
          /\ \A i \in 1..Len(parses) : parses[i].arg = i
          /\ ret = (IF k <= Len(raw) THEN HttpProtocolException ELSE None)

\* A frame is forwarded and the close frame after it raises the fault.
C7_Witness ==
    /\ Received
    /\ switched_protocol = WEBSOCKET
    /\ ~Claimed
    /\ First({"ws_close"}) = Len(raw)
    /\ Len(raw) > 1
    /\ Len(Calls("on_websocket_message")) = Len(raw) - 1
    /\ ret = HttpProtocolException

\* C8: with a route resolved, the route's on_client_data hook is the first
\* call of every on_client_data; when it reports the chunk handled nothing
\* else is called, the pipeline parser is as it was, and no fault is raised.
C8_FirstRefusal ==
    (Received /\ route # None) =>
       /\ trace # <<>>
       /\ trace[1].op = "on_client_data"
       /\ trace[1].who = route
       /\ Len(Calls("on_client_data")) = 1
       /\ Claimed => /\ Len(trace) = 1
                     /\ pipeline_request = trace[1].pp
                     /\ ret = None

\* The route claims a chunk whose close frame would have raised the fault.
C8_Witness ==
    /\ Claimed
    /\ route # None
    /\ switched_protocol = WEBSOCKET
    /\ First({"ws_close"}) <= Len(raw)
    /\ ret = None

\* The chunk went to the pipelining branch
Pipelined ==
    /\ Received
    /\ route # None
    /\ switched_protocol = None
    /\ request.is_complete
    /\ request.is_http_1_1_keep_alive
    /\ ~Claimed

\* C9: a chunk that holds two back-to-back complete keep-alive requests,
\* arriving when no pipelined request is half parsed, has handle_request
\* invoked twice, once for each.
C9_TwoRequestsOneChunk ==
    (/\ Pipelined
     /\ trace[1].pp = NoParser
     /\ Cardinality({i \in 1..Len(raw) : raw[i] \in Ends}) = 2
     /\ \A i \in 1..Len(raw) : raw[i] # "end_close"
     /\ raw[Len(raw)] = "end_keep_alive")
    => /\ Len(Calls("handle_request")) = 2
       /\ \A i \in 1..Len(Calls("handle_request")) :
             Calls("handle_request")[i].who = route

\* C10: a pipelined request that completes without keep-alive is dispatched
\* to handle_request exactly once, HttpProtocolException is raised right
\* after that dispatch and nothing more of the chunk is dispatched; a
\* pipelined request that completes with keep-alive raises no fault.
C10_PipelineFault ==
    Pipelined =>
       LET k == First(Ends)
           dispatched == Calls("handle_request")
       IN IF k > Len(raw)
          THEN dispatched = <<>> /\ ret = None
          ELSE /\ Len(dispatched) = 1
               /\ dispatched[1].who = route
               /\ dispatched[1].arg.is_complete
               /\ dispatched[1].arg.is_http_1_1_keep_alive
                     = (raw[k] = "end_keep_alive")
               /\ IF raw[k] = "end_close"
                  THEN /\ ret = HttpProtocolException
                       /\ trace[Len(trace)].op = "handle_request"
                  ELSE ret = None

\* A request without keep-alive completes with another request behind it
\* in the same chunk.
C10_Witness ==
    /\ Pipelined
    /\ First(Ends) < Len(raw)
    /\ raw[First(Ends)] = "end_close"
    /\ raw[Len(raw)] \in Ends
    /\ ret = HttpProtocolException
    /\ Len(Calls("handle_request")) = 1


\* The state in which on_client_data may pipeline
PipelineGuard ==
    /\ switched_protocol = None
    /\ route # None
    /\ request.is_complete
    /\ request.is_http_1_1_keep_alive

\* C11: on_client_data creates or feeds the pipeline parser, and hands a
\* pipelined request to handle_request, only when switched_protocol is unset,
\* a route is resolved and the first request is complete and keep-alive; in
\* every other state the pipeline parser is unset and on_client_data calls no
\* handle_request.
C11_PipelineGuard ==
    /\ ~PipelineGuard => pipeline_request = NoParser
    /\ (/\ Received
        /\ \/ Calls("HttpParser") # <<>>
           \/ Calls("pipeline_request.parse") # <<>>
           \/ Calls("handle_request") # <<>>
           \/ pipeline_request # NoParser)
       => PipelineGuard

\* A whole request arrives behind a first request that was not keep-alive:
\* it is neither parsed nor dispatched.
C11_Witness ==
    /\ Received
    /\ ~Claimed
    /\ route # None
    /\ switched_protocol = None
    /\ ~request.is_http_1_1_keep_alive
    /\ First(Ends) <= Len(raw)
    /\ pipeline_request = NoParser
    /\ Calls("handle_request") = <<>>


\* Bytes of the request being parsed that earlier chunks brought
Carried ==
    IF trace[1].pp = NoParser THEN 0 ELSE trace[1].pp.total_size

\* C12: over the chunks of a connection, the pipelined requests reach
\* handle_request in the order in which they completed, every one at the
\* route resolved for the first request, and a request that arrives in
\* several chunks is dispatched once, whole, by the chunk that completes it.
C12_PipelinedOrder ==
    /\ \A i \in 1..Len(handled_requests) :
          /\ handled_requests[i].who = route
          /\ handled_requests[i].end <= inbound
          /\ \A j \in 1..Len(handled_requests) :
                i < j => handled_requests[i].end < handled_requests[j].end
    /\ Pipelined =>
          LET k == First(Ends)
              requests == Calls("handle_request")
          IN IF k > Len(raw)
             THEN /\ requests = <<>>
                  /\ ~pipeline_request.is_complete
                  /\ pipeline_request.total_size = Carried + Len(raw)
             ELSE /\ Len(requests) = 1
                  /\ requests[1].who = route
                  /\ requests[1].arg.total_size - Len(requests[1].arg.buffer)
                        = Carried + k
                  /\ handled_requests # <<>>
                  /\ handled_requests[Len(handled_requests)].end
                        = inbound - Len(raw) + k

\* A request that began in an earlier chunk is completed by this one.
C12_Witness ==
    /\ Pipelined
    /\ Carried > 0
    /\ First(Ends) <= Len(raw)
    /\ Len(Calls("handle_request")) = 1
    /\ Len(handled_requests) = 1


Closed == called = "on_client_connection_close"

\* C14: at the close of the client connection, with no route resolved one
\* log line is emitted with the default context; with a route resolved whose
\* on_access_log returns a context, exactly one log line is emitted, with
\* that context; when the hook returns None no log line is emitted.
C14_AccessLog ==
    Closed =>
       LET lines == Calls("access_log")
           asked == Calls("on_access_log")
       IN IF route = None
          THEN /\ asked = <<>>
               /\ Len(lines) = 1
               /\ lines[1].arg = _context(Self)
          ELSE /\ Len(asked) = 1
               /\ asked[1].who = route
               /\ asked[1].arg.context = _context(Self)
               /\ IF asked[1].arg.returns = NoContext
                  THEN lines = <<>>
                  ELSE /\ Len(lines) = 1
                       /\ lines[1].arg = asked[1].arg.returns

\* The route's hook returns None after the connection carried a raw chunk
\* and a response chunk: nothing is logged.
C14_Witness ==
    /\ Closed
    /\ route # None
    /\ inbound > 0
    /\ outbound > 0
    /\ Calls("on_access_log")[1].arg.returns = NoContext
    /\ Calls("access_log") = <<>>


\* C15: at the close of the client connection with a route resolved, the
\* route is notified of the close before it is asked for the log context,
\* the log line, if any, comes after both, and no plugin but the resolved
\* route gets either hook.
C15_TeardownOrder ==
    (Closed /\ route # None) =>
       /\ Len(trace) >= 2
       /\ trace[1].op = "on_client_connection_close"
       /\ trace[2].op = "on_access_log"
       /\ \A i \in 1..Len(trace) :
             /\ trace[i].op = "access_log" => i = 3 /\ trace[i].who = Core
             /\ trace[i].who # Core => i <= 2 /\ trace[i].who = route

\* Both hooks, then the log line, on a connection whose registry holds
\* another plugin than the route.
C15_Witness ==
    /\ Closed
    /\ route # None
    /\ \E i \in 1..Len(plugins) : plugins[i][2] # route
    /\ Len(trace) = 3
    /\ trace[3].op = "access_log"


Fanned == called \in {"read_from_descriptors", "write_to_descriptors"}

\* C16: read_from_descriptors and write_to_descriptors call the plugins in
\* registration order and stop at the first that reports teardown: every
\* plugin registered before it was called, none after it is, and the method
\* returns True; it returns False exactly when every plugin was called and
\* none reported teardown.
C16_FanOut ==
    Fanned =>
       /\ Len(trace) <= Len(flags.plugins)
       /\ \A i \in 1..Len(trace) :
             /\ trace[i].op = called
             /\ trace[i].who = ToString(i)
             /\ i < Len(trace) => ~trace[i].arg.returns
       /\ ret \in {"True", "False"}
       /\ ret = "True" <=> (trace # <<>> /\ trace[Len(trace)].arg.returns)
       /\ ret = "False" <=>
             /\ Len(trace) = Len(flags.plugins)
             /\ \A i \in 1..Len(trace) : ~trace[i].arg.returns


\* The handler that ran last, or none yet
Handlers ==
    {"__init__", "on_request_complete", "on_client_data", "on_response_chunk",
     "get_descriptors", "read_from_descriptors", "write_to_descriptors",
     "on_client_connection_close"}

\* C17: switched_protocol is unset at first and WEBSOCKET is its only other
\* value; route is unset at first; only on_request_complete writes either;
\* on_client_data, on_response_chunk, the descriptor methods and
\* on_client_connection_close leave both as they are; a resolved route never
\* changes and a switched protocol never reverts.
C17_SetOnce ==
    /\ [](/\ switched_protocol \in {None, WEBSOCKET}
          /\ called \in Handlers
          /\ called = "__init__" => route = None /\ switched_protocol = None)
    /\ [][/\ called' # "on_request_complete"
             => route' = route /\ switched_protocol' = switched_protocol
          /\ route # None => route' = route
          /\ switched_protocol = WEBSOCKET => switched_protocol' = WEBSOCKET]_vars

\* The connection is closed after an upgrade, a frame and a response chunk,
\* the route and the protocol still set.
C17_Witness ==
    /\ Closed
    /\ chunks > 0
    /\ responses > 0
    /\ route # None
    /\ switched_protocol = WEBSOCKET


\* C18: whenever switched_protocol is WEBSOCKET a route is resolved and the
\* pipeline parser is unset: every frame goes to a route, and no chunk is
\* both decoded as frames and fed to the pipeline parser.
C18_SwitchedHasRoute ==
    /\ switched_protocol = WEBSOCKET
       => route # None /\ pipeline_request = NoParser
    /\ Received =>
          /\ \A i \in 1..Len(trace) :
                trace[i].op = "on_websocket_message" => trace[i].who # None
          /\ Calls("frame.parse") = <<>> \/ Calls("pipeline_request.parse") = <<>>

\* Frames that would read as a keep-alive request arrive after an upgrade of
\* a keep-alive request: they are decoded and not pipelined.
C18_Witness ==
    /\ Received
    /\ ~Claimed
    /\ switched_protocol = WEBSOCKET
    /\ request.is_http_1_1_keep_alive
    /\ raw[Len(raw)] = "end_keep_alive"
    /\ Len(Calls("frame.parse")) = Len(raw)
    /\ pipeline_request = NoParser


\* The plugin instances self.plugins holds
Registry == {plugins[i][2] : i \in 1..Len(plugins)}

\* C19: whatever the configured classes, two of the same name included,
\* every plugin instance the route table refers to, and so the resolved
\* route, is an instance of the registry, and is called by get_descriptors
\* and, in a cycle that no plugin tears down, by read_from_descriptors and
\* write_to_descriptors.
C19_RoutesInRegistry ==
    /\ \A kind \in httpProtocolTypes :
          \A i \in 1..Len(routes[kind]) : routes[kind][i][2] \in Registry
    /\ route # None => route \in Registry
    /\ (/\ route # None
        /\ \/ called = "get_descriptors"
           \/ Fanned /\ ret = "False")
       => \E i \in 1..Len(trace) : trace[i].who = route


\* C20: when on_client_data returns, the pipeline parser is unset or holds a
\* request that is not complete; a pipelined request that completes with
\* keep-alive leaves it unset; a completed parser stays only when the call
\* raised the fault.  So no call dispatches a request that was complete
\* before the call.
C20_NoStaleParser ==
    Received =>
       /\ ret = None
          => pipeline_request = NoParser \/ ~pipeline_request.is_complete
       /\ (pipeline_request # NoParser /\ pipeline_request.is_complete)
          => /\ ret = HttpProtocolException
             /\ ~pipeline_request.is_http_1_1_keep_alive
       /\ \A i \in 1..Len(trace) :
             trace[i].op = "handle_request" =>
                /\ trace[1].pp = NoParser \/ ~trace[1].pp.is_complete
                /\ (trace[i].arg.is_http_1_1_keep_alive
                    => pipeline_request = NoParser /\ ret = None)

\* The second chunk completes, with keep-alive, the request the first chunk
\* began: it is dispatched and the parser is unset again.
C20_Witness ==
    /\ Pipelined
    /\ chunks = 2
    /\ Carried > 0
    /\ Len(Calls("handle_request")) = 1
    /\ ret = None
    /\ pipeline_request = NoParser

=============================================================================
